---- MODULE Spec2Model ----
(***************************************************************************)
(* The authorization lifecycle core of the TPA backend                     *)
(* (apps/backend/agent_v35.py, class EnhancedTPAWithFinalAuth): four       *)
(* in-memory dictionaries keyed by case_id and six operations on them.     *)
(* The two collaborators of ai_openai.py (generate_letter,                 *)
(* analyze_final_gap) are calls to a remote text service: each call either *)
(* returns a text or raises, and the model draws that outcome with \E.     *)
(*                                                                         *)
(* Python values are represented as follows.                               *)
(*   dict            a function; {} is the empty function <<>>             *)
(*   Optional[T]     None is <<>>, a present value v is <<v>>              *)
(*   list            a sequence                                            *)
(*   float amount    an integer number of currency units (the arithmetic   *)
(*                   of the core is exact on them); a percentage is the    *)
(*                   exact fraction [num, den]                             *)
(*   datetime.now()  the logical clock `now`, which every call advances    *)
(*   return / raise  `result`: the returned dict, or [exception |-> name]  *)
(* `call` names the last call: the method, its case_id, for the two query  *)
(* handlers the query text, and for generate_final_auth_request whether    *)
(* the case had a final authorization already.                             *)
(*                                                                         *)
(* Spec takes every call as one step. SpecInterleaved lets the calls of    *)
(* several request threads overlap: a call that reaches generate_letter or *)
(* analyze_final_gap waits there for the remote service, and `pending`     *)
(* holds the frames of the calls that wait, while other calls run.         *)
(***************************************************************************)
EXTENDS Integers, Sequences, FiniteSets, TLC

VARIABLES cases, pre_authorizations, final_authorizations, discharge_records,
          now, call, result, pending

vars == <<cases, pre_authorizations, final_authorizations, discharge_records,
          now, call, result, pending>>

stores == <<cases, pre_authorizations, final_authorizations, discharge_records>>

----------------------------------------------------------------------------
(* Bounds of the model and the input sets *)

\* number of calls in a run
MaxTime == 4

CaseIds == {"c1", "c2"}
Amounts == {-1, 0, 4, 5}
EstimatedCosts == {4}
Queries == {"q1", "q2"}
Letters == {"h1", "h2"}
Analyses == {"a1"}

----------------------------------------------------------------------------
(* Python values *)

None == <<>>
Some(v) == <<v>>
IsNone(o) == o = <<>>
EmptyDict == <<>>

\* dict truthiness: `not d` holds of the empty dict
Truthy(d) == DOMAIN d # {}

\* d.get(k): None when the key is absent
Get(d, k) == IF k \in DOMAIN d THEN Some(d[k]) ELSE None

\* mutant: the dict is replaced by one that holds the new item only
Put_alone(d, k, v) == [x \in {k} |-> v]

\* d[k] = v
Put(d, k, v) == [x \in DOMAIN d \cup {k} |-> IF x = k THEN v ELSE d[x]]

\* `x or 0` on an Optional number
OrZero(o) == IF IsNone(o) \/ o[1] = 0 THEN 0 ELSE o[1]

max(a, b) == IF a >= b THEN a ELSE b

\* datetime.fromisoformat: the parsed date, or None where it raises ValueError
fromisoformat(s) ==
    CASE s = "2024-01-05" -> Some([year |-> 2024, month |-> 1, day |-> 5])
      [] s = "2024-02-10" -> Some([year |-> 2024, month |-> 2, day |-> 10])
      [] OTHER -> None

----------------------------------------------------------------------------
(* AuthorizationStatus *)

PENDING == "Pending"
QUERY_RAISED == "Query Raised"
QUERY_REPLIED == "Query Replied"
APPROVED == "Approved"
REJECTED == "Rejected"
PARTIALLY_APPROVED == "Partially Approved"

AuthorizationStatus ==
    {PENDING, QUERY_RAISED, QUERY_REPLIED, APPROVED, REJECTED, PARTIALLY_APPROVED}

----------------------------------------------------------------------------
(* The records *)

PreAuthorizationRecord(case_id, request_date, requested_amount) ==
    [case_id |-> case_id, request_date |-> request_date,
     requested_amount |-> requested_amount, approval_status |-> PENDING,
     approved_amount |-> None, approval_number |-> None, approval_date |-> None,
     queries |-> <<>>, rejection_reason |-> None]

DocumentsSubmitted ==
    <<"Discharge Summary", "Final Bill (itemized)", "Investigation Reports",
      "Pharmacy Bills", "OT Notes", "IPD Charts">>

FinalAuthorizationRecord(case_id, request_date, final_bill, pre_auth_amount, additional_needed) ==
    [case_id |-> case_id, request_date |-> request_date,
     final_bill_amount |-> final_bill, pre_auth_approved |-> pre_auth_amount,
     additional_amount_requested |-> additional_needed,
     approval_status |-> PENDING, approved_amount |-> None,
     approval_number |-> None, approval_date |-> None, queries |-> <<>>,
     deductions |-> EmptyDict, rejection_reason |-> None,
     documents_submitted |-> DocumentsSubmitted]

\* the entry appended to a record's queries
QueryEntry(date, query_content, html) ==
    [date |-> date, query |-> query_content, response |-> html]

----------------------------------------------------------------------------
(* Inputs *)

\* patient_data: a dict with the patient's name, or an empty dict
PatientData == {EmptyDict, [name |-> "Asha"]}

\* discharge_data, by its bill; the empty dict has no bill
DischargeData == {[final_bill_amount |-> b] : b \in Amounts} \cup {EmptyDict}

\* approval_data of record_preauth_approval; the last one has a date that
\* datetime.fromisoformat rejects
PreApprovalData ==
    {[approved_amount |-> a, approval_number |-> "AP1",
      approval_date |-> "2024-01-05"] : a \in Amounts}
    \cup {[approved_amount |-> 4, approval_number |-> "AP2",
           approval_date |-> "2024-02-10"],
          [approved_amount |-> 5, approval_number |-> "AP1",
           approval_date |-> "not-a-date"]}

\* approval_data of record_final_auth_approval: the same, with and without the
\* optional key "deductions"
FinalApprovalData ==
    {[approved_amount |-> a, approval_number |-> "AP1",
      approval_date |-> "2024-01-05", deductions |-> [copay |-> 1]] :
        a \in Amounts}
    \cup {[approved_amount |-> 4, approval_number |-> "AP2",
           approval_date |-> "2024-02-10"],
          [approved_amount |-> 5, approval_number |-> "AP1",
           approval_date |-> "not-a-date"]}

\* what a call of generate_letter does: None when it raises, else the html
LetterOutcomes == {None} \cup {Some(h) : h \in Letters}

\* what a call of analyze_final_gap does: None when it raises, else the text
AnalysisOutcomes == {None} \cup {Some(a) : a \in Analyses}

Raised(name) == [exception |-> name]

----------------------------------------------------------------------------
(* Construction *)

Init ==
    /\ cases = EmptyDict
    /\ pre_authorizations = EmptyDict
    /\ final_authorizations = EmptyDict
    /\ discharge_records = EmptyDict
    /\ now = 0
    /\ call = [op |-> "__init__"]
    /\ result = EmptyDict
    /\ pending = {}

\* every call reads the clock later than the one before it
Tick == now < MaxTime /\ now' = now + 1

----------------------------------------------------------------------------
(* Pre-authorization *)

send_preauth_request(case_id, patient_data, estimated_cost) ==
    /\ Tick
    /\ UNCHANGED pending
    /\ call' = [op |-> "send_preauth_request", case_id |-> case_id]
    /\ cases' = Put(cases, case_id, patient_data)
    /\ pre_authorizations' =
          Put(pre_authorizations, case_id,
              PreAuthorizationRecord(case_id, now, estimated_cost))
    /\ result' = [status |-> "pre_auth_sent", case_id |-> case_id,
                  requested_amount |-> estimated_cost]
    /\ UNCHANGED <<final_authorizations, discharge_records>>

\* mutant: the status is set before the letter is generated
preauth_query_before_status_first(pre_auth) ==
    [pre_auth EXCEPT !.approval_status = "Query Replied"]

\* lines 63-67: what handle_preauth_query has written to the record when it
\* calls generate_letter
preauth_query_before(pre_auth) == pre_auth

\* lines 68-73: what it writes once generate_letter has returned html
preauth_query_after(pre_auth, date, query_content, html) ==
    [pre_auth EXCEPT !.queries = Append(@, QueryEntry(date, query_content, html)),
                     !.approval_status = QUERY_REPLIED]

handle_preauth_query(case_id, query_content, letter) ==
    /\ Tick
    /\ UNCHANGED pending
    /\ call' = [op |-> "handle_preauth_query", case_id |-> case_id,
                query_content |-> query_content]
    /\ UNCHANGED <<cases, final_authorizations, discharge_records>>
    /\ IF case_id \notin DOMAIN pre_authorizations
       THEN /\ result' = [error |-> "Pre-auth not found"]
            /\ UNCHANGED pre_authorizations
       ELSE LET pre_auth == pre_authorizations[case_id] IN
            IF IsNone(letter)
            THEN /\ result' = Raised("generate_letter")
                 /\ pre_authorizations' =
                       Put(pre_authorizations, case_id, preauth_query_before(pre_auth))
            ELSE /\ result' = [status |-> "query_replied", response_html |-> letter[1]]
                 /\ pre_authorizations' =
                       Put(pre_authorizations, case_id,
                           preauth_query_after(preauth_query_before(pre_auth),
                                               now, query_content, letter[1]))

\* lines 80-83: the assignments of record_preauth_approval in their order; a
\* missing key raises KeyError and a malformed date ValueError, and the
\* assignments made before the raise stay
preauth_approval_fields(pre_auth, approval_data) ==
    LET r1 == [pre_auth EXCEPT !.approval_status = APPROVED] IN
    IF "approved_amount" \notin DOMAIN approval_data
    THEN [record |-> r1, raised |-> Some("KeyError")]
    ELSE
    LET r2 == [r1 EXCEPT !.approved_amount = Some(approval_data.approved_amount)] IN
    IF "approval_number" \notin DOMAIN approval_data
    THEN [record |-> r2, raised |-> Some("KeyError")]
    ELSE
    LET r3 == [r2 EXCEPT !.approval_number = Some(approval_data.approval_number)] IN
    IF "approval_date" \notin DOMAIN approval_data
    THEN [record |-> r3, raised |-> Some("KeyError")]
    ELSE
    LET d == fromisoformat(approval_data.approval_date) IN
    IF IsNone(d)
    THEN [record |-> r3, raised |-> Some("ValueError")]
    ELSE [record |-> [r3 EXCEPT !.approval_date = d], raised |-> None]

\* mutant: an approval also refreshes the amount held by the final
\* authorization of the case
record_preauth_approval_synced(case_id, approval_data) ==
    /\ Tick
    /\ UNCHANGED pending
    /\ call' = [op |-> "record_preauth_approval", case_id |-> case_id]
    /\ UNCHANGED <<cases, discharge_records>>
    /\ IF case_id \notin DOMAIN pre_authorizations
       THEN /\ result' = [error |-> "Pre-auth not found"]
            /\ UNCHANGED <<pre_authorizations, final_authorizations>>
       ELSE LET done == preauth_approval_fields(pre_authorizations[case_id],
                                                approval_data) IN
            /\ pre_authorizations' = Put(pre_authorizations, case_id, done.record)
            /\ final_authorizations' =
                  [x \in DOMAIN final_authorizations |->
                      IF x = case_id /\ ~IsNone(done.record.approved_amount)
                      THEN [final_authorizations[x] EXCEPT
                               !.pre_auth_approved = done.record.approved_amount[1]]
                      ELSE final_authorizations[x]]
            /\ result' = IF IsNone(done.raised)
                         THEN [status |-> "pre_auth_approved",
                               approved_amount |-> done.record.approved_amount[1]]
                         ELSE Raised(done.raised[1])

record_preauth_approval(case_id, approval_data) ==
    /\ Tick
    /\ UNCHANGED pending
    /\ call' = [op |-> "record_preauth_approval", case_id |-> case_id]
    /\ UNCHANGED <<cases, final_authorizations, discharge_records>>
    /\ IF case_id \notin DOMAIN pre_authorizations
       THEN /\ result' = [error |-> "Pre-auth not found"]
            /\ UNCHANGED pre_authorizations
       ELSE LET done == preauth_approval_fields(pre_authorizations[case_id],
                                                approval_data) IN
            /\ pre_authorizations' = Put(pre_authorizations, case_id, done.record)
            /\ result' = IF IsNone(done.raised)
                         THEN [status |-> "pre_auth_approved",
                               approved_amount |-> done.record.approved_amount[1]]
                         ELSE Raised(done.raised[1])

----------------------------------------------------------------------------
(* Final authorization *)

\* line 94: pre_auth.approved_amount or 0
pre_auth_amount_of(pre_auth) == OrZero(pre_auth.approved_amount)

\* mutant: the difference is not clamped at 0
additional_needed_unclamped(final_bill, pre_auth_amount) ==
    final_bill - pre_auth_amount

\* line 95
additional_needed_of(final_bill, pre_auth_amount) ==
    max(0, final_bill - pre_auth_amount)

\* mutant: the discharge data is stored for every case that has some
final_request_before_every_case(records, case_id, discharge_data) ==
    [x \in DOMAIN records \cup {case_id} |-> discharge_data]

\* mutant: the discharge data of an earlier request is kept
final_request_before_kept(records, case_id, discharge_data) ==
    IF case_id \in DOMAIN records THEN records
    ELSE [x \in DOMAIN records \cup {case_id} |->
             IF x = case_id THEN discharge_data ELSE records[x]]

\* line 92: what generate_final_auth_request has written to discharge_records
\* when it reads the bill and calls generate_letter
final_request_before(records, case_id, discharge_data) ==
    Put(records, case_id, discharge_data)

\* lines 122-130: the record it stores once generate_letter has returned
final_request_after(case_id, date, final_bill, pre_auth) ==
    FinalAuthorizationRecord(
        case_id, date, final_bill, pre_auth_amount_of(pre_auth),
        additional_needed_of(final_bill, pre_auth_amount_of(pre_auth)))

\* mutant: the patient data is not looked at
final_request_missing_pre_auth_only(case_id) ==
    case_id \notin DOMAIN pre_authorizations

\* lines 87-89: not pre_auth or not patient
final_request_missing(case_id) ==
    \/ case_id \notin DOMAIN pre_authorizations
    \/ case_id \notin DOMAIN cases
    \/ ~Truthy(cases[case_id])

\* mutant: the discharge data is stored before the lookup is checked
final_request_not_found_stored(case_id, discharge_data) ==
    /\ result' = [error |-> "Pre-auth or patient data not found"]
    /\ discharge_records' = [x \in DOMAIN discharge_records \cup {case_id} |->
                                IF x = case_id THEN discharge_data
                                ELSE discharge_records[x]]
    /\ UNCHANGED final_authorizations

\* lines 89-90: the early return, before anything is stored
final_request_not_found(case_id, discharge_data) ==
    /\ result' = [error |-> "Pre-auth or patient data not found"]
    /\ UNCHANGED <<final_authorizations, discharge_records>>

generate_final_auth_request(case_id, discharge_data, letter) ==
    /\ Tick
    /\ UNCHANGED pending
    /\ call' = [op |-> "generate_final_auth_request", case_id |-> case_id,
                repeated |-> case_id \in DOMAIN final_authorizations]
    /\ UNCHANGED <<cases, pre_authorizations>>
    /\ IF final_request_missing(case_id)
       THEN final_request_not_found(case_id, discharge_data)
       ELSE /\ discharge_records' =
                  final_request_before(discharge_records, case_id, discharge_data)
            /\ IF "final_bill_amount" \notin DOMAIN discharge_data
               THEN /\ result' = Raised("KeyError")
                    /\ UNCHANGED final_authorizations
               ELSE IF IsNone(letter)
               THEN /\ result' = Raised("generate_letter")
                    /\ UNCHANGED final_authorizations
               ELSE LET final_auth ==
                            final_request_after(case_id, now,
                                                discharge_data.final_bill_amount,
                                                pre_authorizations[case_id])
                    IN /\ final_authorizations' =
                             Put(final_authorizations, case_id, final_auth)
                       /\ result' =
                             [status |-> "final_auth_generated",
                              request_letter_html |-> letter[1],
                              additional_requested |->
                                  final_auth.additional_amount_requested]

\* lines 134-144: nothing is written before generate_letter is called
final_query_before(final_auth) == final_auth

\* mutant: the query is recorded as raised, not as replied
final_query_after_raised(final_auth, date, query_content, html) ==
    [final_auth EXCEPT !.queries = Append(@, QueryEntry(date, query_content, html)),
                       !.approval_status = QUERY_RAISED]

\* lines 145-150
final_query_after(final_auth, date, query_content, html) ==
    [final_auth EXCEPT !.queries = Append(@, QueryEntry(date, query_content, html)),
                       !.approval_status = QUERY_REPLIED]

handle_final_auth_query(case_id, query_content, letter) ==
    /\ Tick
    /\ UNCHANGED pending
    /\ call' = [op |-> "handle_final_auth_query", case_id |-> case_id,
                query_content |-> query_content]
    /\ UNCHANGED <<cases, pre_authorizations, discharge_records>>
    /\ IF \/ case_id \notin DOMAIN final_authorizations
          \/ case_id \notin DOMAIN discharge_records
          \/ ~Truthy(discharge_records[case_id])
       THEN /\ result' = [error |-> "Final auth or discharge data not found"]
            /\ UNCHANGED final_authorizations
       ELSE LET final_auth == final_authorizations[case_id] IN
            IF IsNone(letter)
            THEN /\ result' = Raised("generate_letter")
                 /\ final_authorizations' =
                       Put(final_authorizations, case_id, final_query_before(final_auth))
            ELSE /\ result' = [status |-> "query_analyzed", response_html |-> letter[1]]
                 /\ final_authorizations' =
                       Put(final_authorizations, case_id,
                           final_query_after(final_query_before(final_auth),
                                             now, query_content, letter[1]))

\* lines 157-161: the assignments of record_final_auth_approval made before
\* analyze_final_gap is called, in their order; a missing key raises KeyError
\* and a malformed date ValueError, and the assignments before the raise stay
final_approval_before(final_auth, approval_data) ==
    LET r1 == [final_auth EXCEPT !.approval_status = APPROVED] IN
    IF "approved_amount" \notin DOMAIN approval_data
    THEN [record |-> r1, raised |-> Some("KeyError")]
    ELSE
    LET r2 == [r1 EXCEPT !.approved_amount = Some(approval_data.approved_amount)] IN
    IF "approval_number" \notin DOMAIN approval_data
    THEN [record |-> r2, raised |-> Some("KeyError")]
    ELSE
    LET r3 == [r2 EXCEPT !.approval_number = Some(approval_data.approval_number)] IN
    IF "approval_date" \notin DOMAIN approval_data
    THEN [record |-> r3, raised |-> Some("KeyError")]
    ELSE
    LET d == fromisoformat(approval_data.approval_date) IN
    IF IsNone(d)
    THEN [record |-> r3, raised |-> Some("ValueError")]
    ELSE [record |-> [r3 EXCEPT !.approval_date = d,
                                !.deductions =
                                    IF "deductions" \in DOMAIN approval_data
                                    THEN approval_data.deductions ELSE EmptyDict],
          raised |-> None]

\* line 165
gap_amount(billed, approved) == billed - approved

\* mutant: the division is not guarded, and fails on a bill of 0
gap_percentage_unguarded(gap, billed) == [num |-> gap * 100, den |-> billed]

\* line 166: (gap / billed * 100) if billed else 0.0, as an exact fraction
gap_percentage(gap, billed) ==
    IF billed # 0 THEN [num |-> gap * 100, den |-> billed]
                  ELSE [num |-> 0, den |-> 1]

\* the policy threshold, in percent
EscalationThreshold == 20

\* fraction > integer
FracGT(f, n) == IF f.den > 0 THEN f.num > n * f.den ELSE f.num < n * f.den

\* mutant: a gap of exactly 20 percent escalates too
requires_escalation_at_threshold(gap_pct) ==
    IF gap_pct.den > 0 THEN gap_pct.num >= EscalationThreshold * gap_pct.den
                       ELSE gap_pct.num <= EscalationThreshold * gap_pct.den

\* line 174: gap_pct > 20
requires_escalation(gap_pct) == FracGT(gap_pct, EscalationThreshold)

\* lines 168-175
GapAnalysis(final_auth, analysis) ==
    LET billed == final_auth.final_bill_amount
        approved == final_auth.approved_amount[1]
        gap == gap_amount(billed, approved)
        gap_pct == gap_percentage(gap, billed)
    IN [status |-> "final_auth_approved", final_bill |-> billed,
        approved_amount |-> approved, gap_amount |-> gap,
        gap_percentage |-> gap_pct, deductions |-> final_auth.deductions,
        ai_analysis |-> analysis,
        requires_escalation |-> requires_escalation(gap_pct)]

record_final_auth_approval(case_id, approval_data, analysis) ==
    /\ Tick
    /\ UNCHANGED pending
    /\ call' = [op |-> "record_final_auth_approval", case_id |-> case_id]
    /\ UNCHANGED <<cases, pre_authorizations, discharge_records>>
    /\ IF case_id \notin DOMAIN final_authorizations
       THEN /\ result' = [error |-> "Final auth not found"]
            /\ UNCHANGED final_authorizations
       ELSE LET done == final_approval_before(final_authorizations[case_id],
                                              approval_data) IN
            /\ final_authorizations' = Put(final_authorizations, case_id, done.record)
            /\ result' = IF ~IsNone(done.raised) THEN Raised(done.raised[1])
                         ELSE IF IsNone(analysis) THEN Raised("analyze_final_gap")
                         ELSE GapAnalysis(done.record, analysis[1])

----------------------------------------------------------------------------
(* The core as a state machine: any call, with any input, at any time *)

Next ==
    \/ \E c \in CaseIds, p \in PatientData, e \in EstimatedCosts :
          send_preauth_request(c, p, e)
    \/ \E c \in CaseIds, q \in Queries, l \in LetterOutcomes :
          handle_preauth_query(c, q, l)
    \/ \E c \in CaseIds, a \in PreApprovalData :
          record_preauth_approval(c, a)
    \/ \E c \in CaseIds, d \in DischargeData, l \in LetterOutcomes :
          generate_final_auth_request(c, d, l)
    \/ \E c \in CaseIds, q \in Queries, l \in LetterOutcomes :
          handle_final_auth_query(c, q, l)
    \/ \E c \in CaseIds, a \in FinalApprovalData, g \in AnalysisOutcomes :
          record_final_auth_approval(c, a, g)

Spec == Init /\ [][Next]_vars

----------------------------------------------------------------------------
(* The calls of several threads, overlapping at the collaborator calls.    *)
(* A call runs from its start to its collaborator call in one step (begin_) *)
(* and from the collaborator's answer to its return in another (resume_);  *)
(* between the two, any other call may start, run or return. A frame holds *)
(* what the waiting call has in its locals. A local that refers to a       *)
(* record object is held as the request_date of that object, which no      *)
(* later record of the case shares: the waiting call writes to the object  *)
(* it holds, which a later send_preauth_request or                         *)
(* generate_final_auth_request may have replaced in the store.             *)

\* the object stored under case_id is the one a frame refers to
SameObject(d, case_id, request_date) ==
    case_id \in DOMAIN d /\ d[case_id].request_date = request_date

\* lines 63-67: handle_preauth_query up to its call of generate_letter
begin_handle_preauth_query(case_id, query_content) ==
    /\ Tick
    /\ call' = [op |-> "handle_preauth_query", case_id |-> case_id,
                query_content |-> query_content]
    /\ UNCHANGED <<cases, final_authorizations, discharge_records>>
    /\ IF case_id \notin DOMAIN pre_authorizations
       THEN /\ result' = [error |-> "Pre-auth not found"]
            /\ UNCHANGED <<pre_authorizations, pending>>
       ELSE LET pre_auth == pre_authorizations[case_id] IN
            /\ pre_authorizations' =
                  Put(pre_authorizations, case_id, preauth_query_before(pre_auth))
            /\ pending' = pending \cup
                  {[op |-> "handle_preauth_query", case_id |-> case_id,
                    at |-> now, query_content |-> query_content,
                    pre_auth |-> pre_auth.request_date]}
            /\ UNCHANGED result

\* lines 67-74: generate_letter raises or returns, and the call goes on
resume_handle_preauth_query(frame, letter) ==
    /\ frame.op = "handle_preauth_query"
    /\ pending' = pending \ {frame}
    /\ call' = [op |-> "handle_preauth_query", case_id |-> frame.case_id,
                query_content |-> frame.query_content]
    /\ UNCHANGED <<cases, final_authorizations, discharge_records, now>>
    /\ IF IsNone(letter)
       THEN /\ result' = Raised("generate_letter")
            /\ UNCHANGED pre_authorizations
       ELSE /\ result' = [status |-> "query_replied", response_html |-> letter[1]]
            /\ pre_authorizations' =
                  IF SameObject(pre_authorizations, frame.case_id, frame.pre_auth)
                  THEN Put(pre_authorizations, frame.case_id,
                           preauth_query_after(pre_authorizations[frame.case_id],
                                               now, frame.query_content, letter[1]))
                  ELSE pre_authorizations

\* lines 87-120: generate_final_auth_request up to its call of generate_letter
begin_generate_final_auth_request(case_id, discharge_data) ==
    /\ Tick
    /\ call' = [op |-> "generate_final_auth_request", case_id |-> case_id,
                repeated |-> case_id \in DOMAIN final_authorizations]
    /\ UNCHANGED <<cases, pre_authorizations>>
    /\ IF final_request_missing(case_id)
       THEN /\ final_request_not_found(case_id, discharge_data)
            /\ UNCHANGED pending
       ELSE /\ discharge_records' =
                  final_request_before(discharge_records, case_id, discharge_data)
            /\ UNCHANGED final_authorizations
            /\ IF "final_bill_amount" \notin DOMAIN discharge_data
               THEN /\ result' = Raised("KeyError")
                    /\ UNCHANGED pending
               ELSE LET final_bill == discharge_data.final_bill_amount
                        pre_auth_amount ==
                            pre_auth_amount_of(pre_authorizations[case_id])
                    IN /\ pending' = pending \cup
                             {[op |-> "generate_final_auth_request",
                               case_id |-> case_id, at |-> now,
                               final_bill |-> final_bill,
                               pre_auth_amount |-> pre_auth_amount,
                               additional_needed |->
                                   additional_needed_of(final_bill, pre_auth_amount)]}
                       /\ UNCHANGED result

\* lines 120-131
resume_generate_final_auth_request(frame, letter) ==
    /\ frame.op = "generate_final_auth_request"
    /\ pending' = pending \ {frame}
    /\ call' = [op |-> "generate_final_auth_request", case_id |-> frame.case_id,
                repeated |-> frame.case_id \in DOMAIN final_authorizations]
    /\ UNCHANGED <<cases, pre_authorizations, discharge_records, now>>
    /\ IF IsNone(letter)
       THEN /\ result' = Raised("generate_letter")
            /\ UNCHANGED final_authorizations
       ELSE /\ final_authorizations' =
                  Put(final_authorizations, frame.case_id,
                      FinalAuthorizationRecord(frame.case_id, now, frame.final_bill,
                                               frame.pre_auth_amount,
                                               frame.additional_needed))
            /\ result' = [status |-> "final_auth_generated",
                          request_letter_html |-> letter[1],
                          additional_requested |-> frame.additional_needed]

\* lines 134-144: handle_final_auth_query up to its call of generate_letter
begin_handle_final_auth_query(case_id, query_content) ==
    /\ Tick
    /\ call' = [op |-> "handle_final_auth_query", case_id |-> case_id,
                query_content |-> query_content]
    /\ UNCHANGED <<cases, pre_authorizations, discharge_records>>
    /\ IF \/ case_id \notin DOMAIN final_authorizations
          \/ case_id \notin DOMAIN discharge_records
          \/ ~Truthy(discharge_records[case_id])
       THEN /\ result' = [error |-> "Final auth or discharge data not found"]
            /\ UNCHANGED <<final_authorizations, pending>>
       ELSE LET final_auth == final_authorizations[case_id] IN
            /\ final_authorizations' =
                  Put(final_authorizations, case_id, final_query_before(final_auth))
            /\ pending' = pending \cup
                  {[op |-> "handle_final_auth_query", case_id |-> case_id,
                    at |-> now, query_content |-> query_content,
                    final_auth |-> final_auth.request_date]}
            /\ UNCHANGED result

\* lines 144-151
resume_handle_final_auth_query(frame, letter) ==
    /\ frame.op = "handle_final_auth_query"
    /\ pending' = pending \ {frame}
    /\ call' = [op |-> "handle_final_auth_query", case_id |-> frame.case_id,
                query_content |-> frame.query_content]
    /\ UNCHANGED <<cases, pre_authorizations, discharge_records, now>>
    /\ IF IsNone(letter)
       THEN /\ result' = Raised("generate_letter")
            /\ UNCHANGED final_authorizations
       ELSE /\ result' = [status |-> "query_analyzed", response_html |-> letter[1]]
            /\ final_authorizations' =
                  IF SameObject(final_authorizations, frame.case_id, frame.final_auth)
                  THEN Put(final_authorizations, frame.case_id,
                           final_query_after(final_authorizations[frame.case_id],
                                             now, frame.query_content, letter[1]))
                  ELSE final_authorizations

\* line 161 seen from a call that waits: final_auth.deductions, which the
\* waiting call reads at line 172, is a field of the object it holds, and an
\* approval that begins on the same object assigns it
deductions_assigned(frame, case_id, request_date, deductions) ==
    IF /\ frame.op = "record_final_auth_approval"
       /\ frame.case_id = case_id
       /\ frame.final_auth = request_date
    THEN [frame EXCEPT !.deductions = deductions]
    ELSE frame

\* lines 154-167: record_final_auth_approval up to its call of
\* analyze_final_gap
begin_record_final_auth_approval(case_id, approval_data) ==
    /\ Tick
    /\ call' = [op |-> "record_final_auth_approval", case_id |-> case_id]
    /\ UNCHANGED <<cases, pre_authorizations, discharge_records>>
    /\ IF case_id \notin DOMAIN final_authorizations
       THEN /\ result' = [error |-> "Final auth not found"]
            /\ UNCHANGED <<final_authorizations, pending>>
       ELSE LET final_auth == final_authorizations[case_id]
                done == final_approval_before(final_auth, approval_data)
            IN /\ final_authorizations' =
                     Put(final_authorizations, case_id, done.record)
               /\ IF ~IsNone(done.raised)
                  THEN /\ result' = Raised(done.raised[1])
                       /\ UNCHANGED pending
                  ELSE /\ pending' =
                             {deductions_assigned(f, case_id, final_auth.request_date,
                                                  done.record.deductions) :
                                  f \in pending}
                             \cup {[op |-> "record_final_auth_approval",
                                    case_id |-> case_id, at |-> now,
                                    final_auth |-> final_auth.request_date,
                                    billed |-> done.record.final_bill_amount,
                                    approved |-> done.record.approved_amount[1],
                                    deductions |-> done.record.deductions]}
                       /\ UNCHANGED result

\* lines 167-175
resume_record_final_auth_approval(frame, analysis) ==
    /\ frame.op = "record_final_auth_approval"
    /\ pending' = pending \ {frame}
    /\ call' = [op |-> "record_final_auth_approval", case_id |-> frame.case_id]
    /\ UNCHANGED <<stores, now>>
    /\ result' = IF IsNone(analysis) THEN Raised("analyze_final_gap")
                 ELSE GapAnalysis([final_bill_amount |-> frame.billed,
                                   approved_amount |-> Some(frame.approved),
                                   deductions |-> frame.deductions],
                                  analysis[1])

NextInterleaved ==
    \/ \E c \in CaseIds, p \in PatientData, e \in EstimatedCosts :
          send_preauth_request(c, p, e)
    \/ \E c \in CaseIds, a \in PreApprovalData :
          record_preauth_approval(c, a)
    \/ \E c \in CaseIds, q \in Queries :
          begin_handle_preauth_query(c, q)
    \/ \E f \in pending, l \in LetterOutcomes :
          resume_handle_preauth_query(f, l)
    \/ \E c \in CaseIds, d \in DischargeData :
          begin_generate_final_auth_request(c, d)
    \/ \E f \in pending, l \in LetterOutcomes :
          resume_generate_final_auth_request(f, l)
    \/ \E c \in CaseIds, q \in Queries :
          begin_handle_final_auth_query(c, q)
    \/ \E f \in pending, l \in LetterOutcomes :
          resume_handle_final_auth_query(f, l)
    \/ \E c \in CaseIds, a \in FinalApprovalData :
          begin_record_final_auth_approval(c, a)
    \/ \E f \in pending, g \in AnalysisOutcomes :
          resume_record_final_auth_approval(f, g)

SpecInterleaved == Init /\ [][NextInterleaved]_vars

----------------------------------------------------------------------------
(* Vocabulary of the properties *)

Terminal == {APPROVED, REJECTED, PARTIALLY_APPROVED}

Returned(key) == key \in DOMAIN result
ReturnedNext(key) == key \in DOMAIN result'
IsError == Returned("error")
LetterFailed == result = Raised("generate_letter")
AnalyzerFailed == result = Raised("analyze_final_gap")

\* the last call was method op on case c
Called(op, c) == call.op = op /\ call.case_id = c
CalledNext(op, c) == call'.op = op /\ call'.case_id = c

IsPrefix(s, t) == Len(s) <= Len(t) /\ SubSeq(t, 1, Len(s)) = s

\* a record of store d under key c keeps its status across the step
KeepsStatus(d, dNext, c) ==
    c \in DOMAIN d /\ d[c].approval_status \in Terminal
        => c \in DOMAIN dNext /\ dNext[c].approval_status = d[c].approval_status

\* approved_amount is set exactly in the approved statuses
AmountIffApproved(rec) ==
    ~IsNone(rec.approved_amount)
        <=> rec.approval_status \in {APPROVED, PARTIALLY_APPROVED}

\* the queries stored under key c grow at their end only
QueriesGrow(d, dNext, c) ==
    c \in DOMAIN d => c \in DOMAIN dNext /\ IsPrefix(d[c].queries, dNext[c].queries)

----------------------------------------------------------------------------
(* C1..C3: the lifecycle of a record *)

\* C1: once a pre-authorization or final-authorization record has a terminal
\* status (Approved, Rejected, Partially Approved), no call changes that
\* record's status.
C1_TerminalStatusKept ==
    [][\A c \in CaseIds :
          /\ KeepsStatus(pre_authorizations, pre_authorizations', c)
          /\ KeepsStatus(final_authorizations, final_authorizations', c)]_vars

\* C2: in every state, every stored record of either phase has approved_amount
\* set if and only if its status is Approved or Partially Approved.
C2_AmountSetIffApproved ==
    /\ \A c \in DOMAIN pre_authorizations : AmountIffApproved(pre_authorizations[c])
    /\ \A c \in DOMAIN final_authorizations : AmountIffApproved(final_authorizations[c])

\* C3: across every call, for every case and each phase, the queries stored
\* before the call are a prefix of the queries stored after it.
C3_QueriesAppendOnly ==
    [][\A c \in CaseIds :
          /\ QueriesGrow(pre_authorizations, pre_authorizations', c)
          /\ QueriesGrow(final_authorizations, final_authorizations', c)]_vars

----------------------------------------------------------------------------
(* C4..C7: failures *)

\* the store in which each method looks its record up first
LookupStore(op) ==
    CASE op = "handle_preauth_query" -> pre_authorizations
      [] op = "record_preauth_approval" -> pre_authorizations
      [] op = "generate_final_auth_request" -> pre_authorizations
      [] op = "handle_final_auth_query" -> final_authorizations
      [] op = "record_final_auth_approval" -> final_authorizations

ReferencingOps ==
    {"handle_preauth_query", "record_preauth_approval",
     "generate_final_auth_request", "handle_final_auth_query",
     "record_final_auth_approval"}

\* C4: each of the five methods that look a record up, called with a case_id
\* that has no such record, returns an error result and leaves the four stores
\* as they were.
C4_NotFoundChangesNothing ==
    [][\A c \in CaseIds : \A op \in ReferencingOps :
          CalledNext(op, c) /\ c \notin DOMAIN LookupStore(op)
              => ReturnedNext("error") /\ stores' = stores]_vars

\* C4 witness: a final authorization was requested for a case with no
\* pre-authorization, and another case has records that could have been touched
C4_Witness ==
    \E c \in CaseIds :
        /\ Called("generate_final_auth_request", c)
        /\ c \notin DOMAIN pre_authorizations
        /\ IsError
        /\ DOMAIN pre_authorizations # {}

\* status and queries of the record under key c are the same after the step
SameStatusAndQueries(d, dNext, c) ==
    /\ c \in DOMAIN dNext
    /\ dNext[c].approval_status = d[c].approval_status
    /\ dNext[c].queries = d[c].queries

\* C5: when generate_letter fails in handle_preauth_query or
\* handle_final_auth_query, the record's status and queries are what they were
\* before the call.
C5_QueryLetterFailureChangesNothing ==
    [][\A c \in CaseIds :
          /\ CalledNext("handle_preauth_query", c) /\ LetterFailed'
                => SameStatusAndQueries(pre_authorizations, pre_authorizations', c)
          /\ CalledNext("handle_final_auth_query", c) /\ LetterFailed'
                => SameStatusAndQueries(final_authorizations,
                                        final_authorizations', c)]_vars

\* C5 witness: the letter of a pre-authorization query failed on a record that
\* was still Pending
C5_Witness ==
    \E c \in CaseIds :
        /\ Called("handle_preauth_query", c)
        /\ LetterFailed
        /\ pre_authorizations[c].approval_status = PENDING

\* C6: when generate_letter fails in generate_final_auth_request, the final
\* authorization and the discharge record stored for the case are what they
\* were before the call.
C6_RequestLetterFailureChangesNothing ==
    [][\A c \in CaseIds :
          CalledNext("generate_final_auth_request", c) /\ LetterFailed'
              => /\ Get(final_authorizations', c) = Get(final_authorizations, c)
                 /\ Get(discharge_records', c) = Get(discharge_records, c)]_vars

\* C7: when analyze_final_gap fails in record_final_auth_approval, the final
\* authorization record is what it was before the call.
C7_AnalyzerFailureChangesNothing ==
    [][\A c \in CaseIds :
          CalledNext("record_final_auth_approval", c) /\ AnalyzerFailed'
              => final_authorizations'[c] = final_authorizations[c]]_vars

----------------------------------------------------------------------------
(* C8..C10: the figures *)

\* the last call was a record_final_auth_approval that returned its analysis
ApprovalReturned(c) ==
    Called("record_final_auth_approval", c) /\ Returned("requires_escalation")

\* C8: record_final_auth_approval returns requires_escalation = true exactly
\* when the gap is more than 20 percent of the bill: for a bill b > 0 and an
\* approved amount a, exactly when 100 * (b - a) > 20 * b; and false for a
\* bill of 0.
C8_EscalationAboveTwentyPercent ==
    \A c \in CaseIds :
        ApprovalReturned(c) =>
            LET b == final_authorizations[c].final_bill_amount
                a == final_authorizations[c].approved_amount[1]
            IN /\ b > 0 => (result.requires_escalation <=> 100 * (b - a) > 20 * b)
               /\ b = 0 => ~result.requires_escalation

\* C8 witness: a gap of exactly 20 percent (4 approved of a bill of 5) was
\* returned without escalation
C8_Witness ==
    \E c \in CaseIds :
        /\ ApprovalReturned(c)
        /\ final_authorizations[c].final_bill_amount = 5
        /\ final_authorizations[c].approved_amount = Some(4)
        /\ ~result.requires_escalation

\* C9: record_final_auth_approval returns gap_amount = the final_bill_amount
\* the record held before the call minus the approved amount the call stored,
\* and gap_percentage = gap_amount / final_bill_amount * 100 for a bill other
\* than 0, and 0 for a bill of 0.
C9_GapFigures ==
    [][\A c \in CaseIds :
          CalledNext("record_final_auth_approval", c) /\ ReturnedNext("gap_amount")
              => LET b == final_authorizations[c].final_bill_amount
                     a == final_authorizations'[c].approved_amount[1]
                     pct == result'.gap_percentage
                 IN /\ result'.gap_amount = b - a
                    /\ result'.final_bill = b
                    /\ result'.approved_amount = a
                    /\ pct.den # 0
                    /\ b # 0 => pct.num * b = (b - a) * 100 * pct.den
                    /\ b = 0 => pct.num = 0]_vars

\* C9 witness: an approval was returned for a bill of 0 with a gap percentage
\* of 0 and a gap amount other than 0
C9_Witness ==
    \E c \in CaseIds :
        /\ ApprovalReturned(c)
        /\ final_authorizations[c].final_bill_amount = 0
        /\ result.gap_amount # 0
        /\ result.gap_percentage.num = 0

\* C10: every stored final authorization has additional_amount_requested =
\* max(0, final_bill_amount - pre_auth_approved), and when it is created
\* pre_auth_approved is the approved amount of the pre-authorization (0 if
\* there is none).
C10_AdditionalAmount ==
    \A c \in DOMAIN final_authorizations :
        LET f == final_authorizations[c] IN
        /\ f.additional_amount_requested =
              (IF f.final_bill_amount >= f.pre_auth_approved
               THEN f.final_bill_amount - f.pre_auth_approved ELSE 0)
        /\ Called("generate_final_auth_request", c) /\ Returned("status")
              => f.pre_auth_approved =
                    (IF IsNone(pre_authorizations[c].approved_amount) THEN 0
                     ELSE pre_authorizations[c].approved_amount[1])

\* C10 witness: a final authorization with a bill below the approved
\* pre-authorization amount asks for nothing more
C10_Witness ==
    \E c \in DOMAIN final_authorizations :
        /\ final_authorizations[c].final_bill_amount = 4
        /\ final_authorizations[c].pre_auth_approved = 5
        /\ final_authorizations[c].additional_amount_requested = 0

----------------------------------------------------------------------------
(* C11..C15: the two phases of a case *)

\* the last call was a generate_final_auth_request that stored a record for c
FinalCreated(c) ==
    Called("generate_final_auth_request", c) /\ Returned("request_letter_html")

\* C11, as claimed: when a final authorization is created for a case, the
\* pre-authorization of the case is Approved or Partially Approved.
C11_FinalOnlyAfterApproval ==
    \A c \in CaseIds :
        FinalCreated(c) =>
            /\ c \in DOMAIN pre_authorizations
            /\ pre_authorizations[c].approval_status \in {APPROVED, PARTIALLY_APPROVED}

\* C11, amended: when a final authorization is created for a case, a
\* pre-authorization record and non-empty patient data are stored for the
\* case; the pre-authorization may have any status.
C11_FinalOnlyAfterPreAuth ==
    \A c \in CaseIds :
        FinalCreated(c) =>
            /\ c \in DOMAIN pre_authorizations
            /\ c \in DOMAIN cases
            /\ cases[c] # EmptyDict

\* C11 witness: a final authorization was created while the pre-authorization
\* was still Pending, with nothing approved
C11_Witness ==
    \E c \in CaseIds :
        /\ FinalCreated(c)
        /\ pre_authorizations[c].approval_status = PENDING
        /\ final_authorizations[c].pre_auth_approved = 0


\* C12: in every state every case with a final authorization has a
\* pre-authorization, and no call removes a record from either store.
C12_FinalHasPreAuthAndNothingRemoved ==
    /\ [](DOMAIN final_authorizations \subseteq DOMAIN pre_authorizations)
    /\ [][/\ DOMAIN pre_authorizations \subseteq DOMAIN pre_authorizations'
          /\ DOMAIN final_authorizations \subseteq DOMAIN final_authorizations']_vars

\* C12 witness: two cases have a pre-authorization, one of them a final
\* authorization too, and the last call was made for the other case
C12_Witness ==
    \E c, d \in DOMAIN pre_authorizations :
        /\ c # d
        /\ c \in DOMAIN final_authorizations
        /\ call.case_id = d


\* C13: send_preauth_request for a case that already has a pre-authorization
\* fails with an error result and leaves the stored record as it was.
C13_DuplicateCaseRejected ==
    [][\A c \in CaseIds :
          CalledNext("send_preauth_request", c) /\ c \in DOMAIN pre_authorizations
              => /\ ReturnedNext("error")
                 /\ pre_authorizations'[c] = pre_authorizations[c]]_vars

\* the three approval fields of a record
ApprovalFields(rec) ==
    <<rec.approved_amount, rec.approval_number, rec.approval_date>>

\* a field that holds a value keeps it across the step
WriteOnce(d, dNext, c) ==
    c \in DOMAIN d =>
        /\ c \in DOMAIN dNext
        /\ \A i \in 1..3 :
              ~IsNone(ApprovalFields(d[c])[i])
                  => ApprovalFields(dNext[c])[i] = ApprovalFields(d[c])[i]

\* a record that was never approved has none of the three fields
UnsetUntilApproved(rec) ==
    rec.approval_status \in {PENDING, QUERY_RAISED}
        => ApprovalFields(rec) = <<None, None, None>>

\* C14: approved_amount, approval_number and approval_date of a record of
\* either phase are unset until an approval is recorded, and once one of them
\* holds a value no call changes or clears it.
C14_ApprovalFieldsWriteOnce ==
    /\ [](/\ \A c \in DOMAIN pre_authorizations :
                UnsetUntilApproved(pre_authorizations[c])
          /\ \A c \in DOMAIN final_authorizations :
                UnsetUntilApproved(final_authorizations[c]))
    /\ [][\A c \in CaseIds :
             /\ WriteOnce(pre_authorizations, pre_authorizations', c)
             /\ WriteOnce(final_authorizations, final_authorizations', c)]_vars


PreAuthOps ==
    {"send_preauth_request", "handle_preauth_query", "record_preauth_approval"}

\* C15: once a final authorization is stored for a case, every
\* pre-authorization call for the case leaves its pre_auth_approved and its
\* additional_amount_requested as they were.
C15_PreAuthApprovedIsSnapshot ==
    [][\A c \in DOMAIN final_authorizations : \A op \in PreAuthOps :
          CalledNext(op, c)
              => /\ c \in DOMAIN final_authorizations'
                 /\ final_authorizations'[c].pre_auth_approved
                       = final_authorizations[c].pre_auth_approved
                 /\ final_authorizations'[c].additional_amount_requested
                       = final_authorizations[c].additional_amount_requested]_vars

\* C15 witness: a pre-authorization was approved again with another amount
\* after the final authorization took its snapshot
C15_Witness ==
    \E c \in DOMAIN final_authorizations :
        /\ Called("record_preauth_approval", c)
        /\ Returned("approved_amount")
        /\ result.approved_amount # 0
        /\ final_authorizations[c].pre_auth_approved # 0
        /\ result.approved_amount # final_authorizations[c].pre_auth_approved

----------------------------------------------------------------------------
(* C16..C20: queries, discharge data, amounts and cases *)

\* the call appended one entry, with its query text and the response it
\* returned, to the queries of the record under key c and set Query Replied
QueryRecorded(d, dNext, c) ==
    /\ ReturnedNext("response_html")
    /\ c \in DOMAIN dNext
    /\ Len(dNext[c].queries) = Len(d[c].queries) + 1
    /\ SubSeq(dNext[c].queries, 1, Len(d[c].queries)) = d[c].queries
    /\ dNext[c].queries[Len(dNext[c].queries)].query = call'.query_content
    /\ dNext[c].queries[Len(dNext[c].queries)].response = result'.response_html
    /\ dNext[c].approval_status = QUERY_REPLIED

\* C16: a query recorded for a stored record of either phase, whatever its
\* status, for which the letter is generated appends exactly one entry with
\* the query text and the generated response at the end of the queries, sets
\* the status to Query Replied and returns the response it stored.
C16_QueryAlwaysRecorded ==
    [][\A c \in CaseIds :
          /\ (/\ CalledNext("handle_preauth_query", c)
              /\ c \in DOMAIN pre_authorizations
              /\ ~LetterFailed')
                => QueryRecorded(pre_authorizations, pre_authorizations', c)
          /\ (/\ CalledNext("handle_final_auth_query", c)
              /\ c \in DOMAIN final_authorizations
              /\ ~LetterFailed')
                => QueryRecorded(final_authorizations, final_authorizations', c)]_vars


\* C17, as claimed: once a discharge record is stored for a case, no call
\* changes it.
C17_DischargeNeverChanged ==
    [][\A c \in DOMAIN discharge_records :
          /\ c \in DOMAIN discharge_records'
          /\ discharge_records'[c] = discharge_records[c]]_vars

\* C17, amended: once a discharge record is stored for a case it stays
\* stored, and the only call that changes it is a generate_final_auth_request
\* for that case, which found the pre-authorization and the patient data.
C17_DischargeChangedByNewRequestOnly ==
    [][\A c \in DOMAIN discharge_records :
          /\ c \in DOMAIN discharge_records'
          /\ discharge_records'[c] # discharge_records[c]
                => /\ CalledNext("generate_final_auth_request", c)
                   /\ ~ReturnedNext("error")]_vars

\* C17 witness: a query on the final authorization of a case was answered
\* from the discharge record stored for it
C17_Witness ==
    \E c \in DOMAIN discharge_records :
        /\ Called("handle_final_auth_query", c)
        /\ Returned("response_html")


\* C18: a generate_final_auth_request for a case that has a final
\* authorization already, and for which the letter is generated, replaces
\* both: the discharge record is the new data, and the final authorization is
\* a fresh Pending one with no approval fields, no queries, no deductions, the
\* new bill, and pre_auth_approved and additional_amount_requested computed
\* from the new bill and the pre-authorization's approved amount of now.
C18_RepeatedRequestReplaces ==
    [][\A c \in DOMAIN final_authorizations :
          CalledNext("generate_final_auth_request", c)
          /\ ReturnedNext("request_letter_html")
              => LET f == final_authorizations'[c]
                     approved == pre_authorizations[c].approved_amount
                     snapshot == IF IsNone(approved) THEN 0 ELSE approved[1]
                 IN /\ discharge_records'[c] =
                          [final_bill_amount |-> f.final_bill_amount]
                    /\ f.request_date = now
                    /\ f.approval_status = PENDING
                    /\ ApprovalFields(f) = <<None, None, None>>
                    /\ f.queries = <<>>
                    /\ f.deductions = EmptyDict
                    /\ f.rejection_reason = None
                    /\ f.pre_auth_approved = snapshot
                    /\ f.additional_amount_requested =
                          (IF f.final_bill_amount >= snapshot
                           THEN f.final_bill_amount - snapshot ELSE 0)
                    /\ result'.additional_requested
                          = f.additional_amount_requested]_vars

\* C18 witness: a second request, with a bill on which something more is
\* asked, replaced the final authorization of a case
C18_Witness ==
    \E c \in DOMAIN final_authorizations :
        /\ FinalCreated(c)
        /\ call.repeated
        /\ final_authorizations[c].additional_amount_requested > 0


NonNegativeAmount(rec) ==
    IsNone(rec.approved_amount) \/ rec.approved_amount[1] >= 0

\* C19: no stored record of either phase has a negative approved_amount, and
\* a pre-authorization approval that returned its amount left the record
\* Approved with that amount, also when it is above requested_amount.
C19_ApprovedAmountNonNegative ==
    /\ \A c \in DOMAIN pre_authorizations : NonNegativeAmount(pre_authorizations[c])
    /\ \A c \in DOMAIN final_authorizations : NonNegativeAmount(final_authorizations[c])
    /\ \A c \in CaseIds :
          Called("record_preauth_approval", c) /\ Returned("approved_amount")
              => /\ pre_authorizations[c].approval_status = APPROVED
                 /\ pre_authorizations[c].approved_amount
                       = Some(result.approved_amount)

\* the entry of dict d under key k is the same after the step
SameEntry(d, dNext, k) ==
    /\ (k \in DOMAIN d) = (k \in DOMAIN dNext)
    /\ k \in DOMAIN d => dNext[k] = d[k]

\* C20: a call made for one case leaves the entries of every other case in
\* the four stores as they were.
C20_NoCrossCaseEffect ==
    [][\A c, d \in CaseIds :
          call'.case_id = c /\ d # c
              => /\ SameEntry(cases, cases', d)
                 /\ SameEntry(pre_authorizations, pre_authorizations', d)
                 /\ SameEntry(final_authorizations, final_authorizations', d)
                 /\ SameEntry(discharge_records, discharge_records', d)]_vars

\* C20 witness: one case has all four entries, and the last call created the
\* final authorization of the other case
C20_Witness ==
    \E c, d \in CaseIds :
        /\ c # d
        /\ FinalCreated(c)
        /\ d \in DOMAIN cases
        /\ d \in DOMAIN pre_authorizations
        /\ d \in DOMAIN final_authorizations
        /\ d \in DOMAIN discharge_records

----------------------------------------------------------------------------
(* C21: calls that overlap *)

\* the step started a call that now waits for its collaborator
Suspends == \E f \in pending' : f.at = now

\* C21: under SpecInterleaved, a call that waits in its collaborator call has
\* written nothing that other calls can see: the step that takes a call to
\* its collaborator call leaves the four stores as they were (no discharge
\* record and no approval field of a waiting call is in the stores).
C21_NothingVisibleWhileWaiting ==
    [][Suspends => stores' = stores]_vars

----------------------------------------------------------------------------
(* C22: the statuses that are reached *)

\* the statuses a method assigns: lines 57 and 125, 73 and 150, 80 and 157
AssignedStatuses == {PENDING, QUERY_REPLIED, APPROVED}

StatusAssigned(rec) ==
    /\ rec.approval_status \in AssignedStatuses
    /\ IsNone(rec.rejection_reason)

\* C22: in every state every stored record of either phase has the status
\* Pending, Query Replied or Approved (never Query Raised, Rejected or
\* Partially Approved), and its rejection_reason is unset.
C22_ThreeStatusesReached ==
    /\ \A c \in DOMAIN pre_authorizations : StatusAssigned(pre_authorizations[c])
    /\ \A c \in DOMAIN final_authorizations : StatusAssigned(final_authorizations[c])

\* C22 witness: the pre-authorization of a case is Approved and its final
\* authorization, created Pending and queried once, is Query Replied
C22_Witness ==
    \E c \in DOMAIN final_authorizations :
        /\ pre_authorizations[c].approval_status = APPROVED
        /\ final_authorizations[c].approval_status = QUERY_REPLIED
        /\ Len(final_authorizations[c].queries) = 1

----------------------------------------------------------------------------
(* C23: what is stored beside a record *)

\* C23: in every state every case with a pre-authorization has an entry in
\* cases and every case with a final authorization has an entry in
\* discharge_records; and handle_final_auth_query returns its not-found error
\* exactly when the case has no final authorization.
C23_FinalQueryNotFoundIffNoFinal ==
    /\ [](/\ DOMAIN pre_authorizations \subseteq DOMAIN cases
          /\ DOMAIN final_authorizations \subseteq DOMAIN discharge_records)
    /\ [][\A c \in CaseIds :
             CalledNext("handle_final_auth_query", c)
                 => (ReturnedNext("error") <=> c \notin DOMAIN final_authorizations)]_vars

====
